---- MODULE Spec2Model ----
(***************************************************************************)
(* Model of haidang666/go-app: the sign-up pipeline (transport handler,    *)
(* use case, in-memory repository) and the server lifecycle (main,         *)
(* StartRestAPI, the listener goroutine, graceful shutdown).               *)
(*                                                                         *)
(* Strings are sequences of one-character strings, so that length,         *)
(* lower-casing and the email syntax are computed and not assumed.         *)
(***************************************************************************)
EXTENDS Naturals, Sequences, FiniteSets, TLC

\* ------------------------------------------------------------------------
\* Bounds of the model
\* ------------------------------------------------------------------------

\* requests accepted in one run of the lifecycle specification
MaxRequests == 2

\* requests handled one after the other in the sign-up specification
MaxSeqRequests == 2

\* health probes counted per run
MaxHealth == 2

\* calls of Execute explored when the use case is taken on its own
MaxCalls == 1

\* calls of Create explored when the repository is taken on its own
MaxCreates == 2

\* sign-up requests in flight together when only the handlers run
MaxConcurrent == 2

\* bodies given to both pipelines, one after the other
MaxCompared == 1

\* ------------------------------------------------------------------------
\* Program constants
\* ------------------------------------------------------------------------

\* validate.Var(req.Password, "required,min=5")
MinPasswordLen == 5

\* bcrypt.GenerateFromPassword rejects more than 72 bytes (ErrPasswordTooLong)
BcryptMaxBytes == 72

\* context.WithTimeout(context.Background(), 10*time.Second)
ShutdownTimeout == 10

\* pkg/http/request.FromJSON: http.MaxBytesReader limit of 1 MiB
MaxBodyBytes == 1048576

StatusCreated == 201

StatusBadRequest == 400

StatusOK == 200

\* what middleware.Recoverer answers for a panic
StatusInternalServerError == 500

\* ------------------------------------------------------------------------
\* Strings
\* ------------------------------------------------------------------------

Lower == {"a", "b", "c", "p"}

Upper == {"A", "B", "C", "P"}

\* U+00E9 / U+00C9: two bytes each in UTF-8, inside \x{00A0}-\x{D7FF}
Wide == {"e'", "E'"}

Digit == {"1"}

RECURSIVE Rep(_, _)
Rep(c, n) == IF n = 0 THEN <<>> ELSE <<c>> \o Rep(c, n - 1)

\* unicode.ToLower on one rune
ToLowerRune(c) ==
    CASE c = "A" -> "a"
      [] c = "B" -> "b"
      [] c = "C" -> "c"
      [] c = "P" -> "p"
      [] c = "E'" -> "e'"
      [] OTHER -> c

\* strings.ToLower
ToLower(s) == [i \in 1..Len(s) |-> ToLowerRune(s[i])]

\* utf8.RuneCountInString: what validator's min= compares for a string
RuneLen(s) == Len(s)

RECURSIVE ByteLen(_)
\* len([]byte(s))
ByteLen(s) ==
    IF s = <<>> THEN 0
    ELSE (IF Head(s) \in Wide THEN 2 ELSE 1) + ByteLen(Tail(s))

\* ------------------------------------------------------------------------
\* validator/v10 "email": emailRegex over the characters of the model.
\*   local part : atext+ ( "." atext+ )*            (the quoted form needs a
\*                double quote, which no input of the model contains)
\*   domain     : ( label "." )+ tld "."?
\*   label      : alnum | alnum inner* alnum
\*   tld        : alpha | alpha inner* alpha
\*   inner      : alnum | "-" | "." | "~"
\* ------------------------------------------------------------------------

Alpha == Lower \cup Upper \cup Wide

AlNum == Alpha \cup Digit

\* atext: of its specials !#$%&'*+-/=?^_`{|}~ the model has - _ + and ~
AText == AlNum \cup {"-", "_", "+", "~"}

Inner == AlNum \cup {"-", ".", "~"}

IsLocalPart(s) ==
    /\ Len(s) > 0
    /\ \A i \in 1..Len(s) : s[i] \in AText \cup {"."}
    /\ s[1] # "."
    /\ s[Len(s)] # "."
    /\ \A i \in 1..(Len(s) - 1) : ~(s[i] = "." /\ s[i + 1] = ".")

\* ( label "." )+ tld : a dot at i splitting an alnum..alnum prefix from an
\* alpha..alpha suffix, every character being an inner character
IsDomainCore(d) ==
    /\ \A i \in 1..Len(d) : d[i] \in Inner
    /\ \E i \in 2..(Len(d) - 1) :
          /\ d[i] = "."
          /\ d[1] \in AlNum
          /\ d[i - 1] \in AlNum
          /\ d[i + 1] \in Alpha
          /\ d[Len(d)] \in Alpha

IsDomain(d) ==
    \/ IsDomainCore(d)
    \/ /\ Len(d) > 0
       /\ d[Len(d)] = "."
       /\ IsDomainCore(SubSeq(d, 1, Len(d) - 1))

IsEmail(s) ==
    \E i \in 1..Len(s) :
        /\ s[i] = "@"
        /\ \A j \in 1..Len(s) : s[j] = "@" => j = i
        /\ IsLocalPart(SubSeq(s, 1, i - 1))
        /\ IsDomain(SubSeq(s, i + 1, Len(s)))

\* ------------------------------------------------------------------------
\* Errors are values; NoErr is Go's nil error
\* ------------------------------------------------------------------------

NoErr == "nil"

\* SignUpRequestDto.Validate: validate.Var(Email, "required,email") and then
\* validate.Var(Password, "required,min=5"); the first failure is returned.
\* It is the rule of the hand-wired pipeline, called by its Execute.
Validate(email, password) ==
    IF email = <<>> THEN "email required"
    ELSE IF ~IsEmail(email) THEN "email format"
    ELSE IF password = <<>> THEN "password required"
    ELSE IF RuneLen(password) < MinPasswordLen THEN "password min"
    ELSE NoErr

\* The transport-level rule of the generated pipeline, called by its handler
\* (payload.Validate() on an internal/api/auth.SignUpRequest): "email must
\* be present and syntactically a valid email; password must be present and
\* at least 5 characters".
TransportMinPassword == 5

SignUpRequestValidateShortPassword(email, password) ==
    IF email = <<>> \/ ~IsEmail(email) THEN "email: not a valid email"
    ELSE IF password = <<>> \/ RuneLen(password) < TransportMinPassword - 1
    THEN "password: too short"
    ELSE NoErr

SignUpRequestValidateNoEmailRule(email, password) ==
    IF password = <<>> \/ RuneLen(password) < TransportMinPassword
    THEN "password: too short"
    ELSE NoErr

\* the length taken in bytes, not in characters
SignUpRequestValidateCountsBytes(email, password) ==
    IF email = <<>> \/ ~IsEmail(email) THEN "email: not a valid email"
    ELSE IF password = <<>> \/ ByteLen(password) < TransportMinPassword
    THEN "password: too short"
    ELSE NoErr

SignUpRequestValidate(email, password) ==
    IF email = <<>> \/ ~IsEmail(email) THEN "email: not a valid email"
    ELSE IF password = <<>> \/ RuneLen(password) < TransportMinPassword
    THEN "password: too short"
    ELSE NoErr

\* bcrypt.GenerateFromPassword([]byte(password), bcrypt.DefaultCost):
\* ErrPasswordTooLong above 72 bytes, otherwise a non-empty hash that is not
\* the plaintext.  The per-call salt is not represented: no hash is compared.
GenerateFromPassword(password) ==
    IF ByteLen(password) > BcryptMaxBytes
    THEN [err |-> "bcrypt: password length exceeds 72 bytes", hashed |-> <<>>]
    ELSE [err |-> NoErr, hashed |-> <<"$2a$">> \o password]

\* uuid.Nil, the zero value of entity.User.ID
NilID == 0

\* entity.User{Email: ..., HashedPassword: ...}: ID and the timestamps left
\* at their zero values (a timestamp is <<>> when unset, <<t>> when set)
NewUser(email, hashed) ==
    [ID |-> NilID, Email |-> email, HashedPassword |-> hashed,
     CreatedAt |-> <<>>, UpdatedAt |-> <<>>]

\* entity.User.Validate: email non-empty and email-shaped, hashedPassword set
UserValidateHashOnly(u) ==
    IF u.HashedPassword = <<>> THEN "hashed password required" ELSE NoErr

UserValidate(u) ==
    IF u.Email = <<>> THEN "email required"
    ELSE IF ~IsEmail(u.Email) THEN "email format"
    ELSE IF u.HashedPassword = <<>> THEN "hashed password required"
    ELSE NoErr

\* UserRepository.Create: a new entity with ID uuid.New(), the lowercased
\* email and the candidate's hashed password; the error is always nil.
\* fresh is the value uuid.New() returns.  du is received by pointer: arg is
\* the candidate as the call leaves it.
CreateKeepsID(du, fresh) ==
    [user |-> [ID |-> du.ID, Email |-> ToLower(du.Email),
               HashedPassword |-> du.HashedPassword,
               CreatedAt |-> <<>>, UpdatedAt |-> <<>>],
     err |-> NoErr, arg |-> du]

CreateKeepsCase(du, fresh) ==
    [user |-> [ID |-> fresh, Email |-> du.Email,
               HashedPassword |-> du.HashedPassword,
               CreatedAt |-> <<>>, UpdatedAt |-> <<>>],
     err |-> NoErr, arg |-> du]

CreateCopiesCandidate(du, fresh) ==
    [user |-> [du EXCEPT !.ID = fresh, !.Email = ToLower(du.Email)],
     err |-> NoErr, arg |-> du]

Create(du, fresh) ==
    [user |-> [ID |-> fresh, Email |-> ToLower(du.Email),
               HashedPassword |-> du.HashedPassword,
               CreatedAt |-> <<>>, UpdatedAt |-> <<>>],
     err |-> NoErr, arg |-> du]

\* A repository behind contract.UserRepository whose Create fails: the use
\* case holds the interface, and this is the adapter's error case.
CreateErr == "repository: create failed"

FailingCreate(du, fresh) == [user |-> du, err |-> CreateErr, arg |-> du]

\* the repositories a use case is built with: the in-memory adapter that
\* ProvideUserRepository wires, and the failing one
Repositories == {"memory", "failing"}

\* uc.userRepo.Create(ctx, du), by the repository the use case holds
RepoCreate(repo, du, fresh) ==
    IF repo = "memory" THEN Create(du, fresh) ELSE FailingCreate(du, fresh)

\* ------------------------------------------------------------------------
\* Request bodies
\* ------------------------------------------------------------------------

\* A body as it arrives: its size in bytes, whether it is well-formed JSON,
\* the top-level fields it carries and the values of email and password.
Body(size, wellFormed, fields, email, password) ==
    [size |-> size, wellFormed |-> wellFormed, fields |-> fields,
     email |-> email, password |-> password]

KnownFields == {"email", "password"}

\* request.FromJSON: MaxBytesReader(1 MiB), DisallowUnknownFields, Decode.
\* A field the body does not carry keeps Go's zero value, the empty string.
FromJSONAllowsUnknownFields(body) ==
    IF body.size > MaxBodyBytes
    THEN [err |-> "http: request body too large", email |-> <<>>, password |-> <<>>]
    ELSE IF ~body.wellFormed
    THEN [err |-> "invalid character", email |-> <<>>, password |-> <<>>]
    ELSE [err |-> NoErr,
          email |-> IF "email" \in body.fields THEN body.email ELSE <<>>,
          password |-> IF "password" \in body.fields THEN body.password ELSE <<>>]

FromJSON(body) ==
    IF body.size > MaxBodyBytes
    THEN [err |-> "http: request body too large", email |-> <<>>, password |-> <<>>]
    ELSE IF ~body.wellFormed
    THEN [err |-> "invalid character", email |-> <<>>, password |-> <<>>]
    ELSE IF ~(body.fields \subseteq KnownFields)
    THEN [err |-> "json: unknown field", email |-> <<>>, password |-> <<>>]
    ELSE [err |-> NoErr,
          email |-> IF "email" \in body.fields THEN body.email ELSE <<>>,
          password |-> IF "password" \in body.fields THEN body.password ELSE <<>>]

\* what the struct holds when the decoder's error is not looked at
PayloadOf(body) ==
    [email |-> IF "email" \in body.fields THEN body.email ELSE <<>>,
     password |-> IF "password" \in body.fields THEN body.password ELSE <<>>]

\* ------------------------------------------------------------------------
\* Inputs
\* ------------------------------------------------------------------------

EmailInputs ==
    { <<>>,
      <<"a", "b">>,
      <<"a", "@", "b">>,
      <<"a", "@", "b", ".", "c">>,
      <<"~", "@", "b", ".", "c">>,
      <<"P", "@", "b", ".", "c">>,
      <<"A", "@", "b", ".", "C">> }

PasswordInputs ==
    { Rep("p", n) : n \in {0, MinPasswordLen - 1, MinPasswordLen,
                           BcryptMaxBytes, BcryptMaxBytes + 1} }
    \cup { Rep("e'", n) : n \in {MinPasswordLen - 1, MinPasswordLen,
                                 BcryptMaxBytes \div 2, BcryptMaxBytes \div 2 + 1} }

SmallBody == 64

ValidEmail == <<"A", "@", "b", ".", "C">>

ValidPassword == Rep("p", MinPasswordLen)

BodyInputs ==
    { Body(SmallBody, TRUE, KnownFields, e, p) :
          e \in EmailInputs, p \in PasswordInputs }
    \cup { Body(SmallBody, TRUE, {"password"}, <<>>, ValidPassword),
           Body(SmallBody, TRUE, {"email"}, ValidEmail, <<>>),
           Body(SmallBody, FALSE, KnownFields, ValidEmail, ValidPassword),
           Body(SmallBody, TRUE, KnownFields \cup {"admin"}, ValidEmail, ValidPassword),
           Body(MaxBodyBytes + 1, TRUE, KnownFields, ValidEmail, ValidPassword) }

\* the bodies sent while the lifecycle is explored
LifecycleBodies ==
    { Body(SmallBody, TRUE, KnownFields, ValidEmail, ValidPassword),
      Body(SmallBody, TRUE, KnownFields, ValidEmail, Rep("p", MinPasswordLen - 1)) }

\* ------------------------------------------------------------------------
\* State
\* ------------------------------------------------------------------------

VARIABLES
    mpc,        \* where main is: load, container, start, select, shutdown,
                \* returned, deferred, closed, exited
    exitCode,   \* <<status>> once the process has exited, <<>> before
    cstatus,    \* <<Container.Status>>, <<>> before the container exists
    ctxDone,    \* the NotifyContext context is cancelled (SIGINT/SIGTERM seen)
    inShutdown, \* http.Server.inShutdown, set by server.Shutdown
    lpc,        \* the listener goroutine: none, spawned, binding, serving,
                \* failed, done, dead
    lerr,       \* the error ListenAndServe returned, NoErr if none
    errCh,      \* the buffered error channel (capacity 1)
    ret,        \* what StartRestAPI returned, "pending" before it returns
    elapsed,    \* seconds since server.Shutdown was called
    reqs,       \* the sign-up requests, by order of acceptance
    nreq,       \* how many were accepted
    uuidCount,  \* how many identifiers uuid.New() has produced
    health,     \* the responses the health handler has written
    nhealth,    \* how many health probes were answered
    hpending,   \* health probes accepted whose handler has not run yet
    errSent,    \* a fatal listener error was sent on errCh
    built       \* the instances container construction has built, in order

vars == <<mpc, exitCode, cstatus, ctxDone, inShutdown, lpc, lerr, errCh, ret,
          elapsed, reqs, nreq, uuidCount, health, nhealth, hpending, errSent, built>>

NoCalls == [execute |-> 0, hash |-> 0, validate |-> 0, create |-> 0]

NoResponse ==
    [status |-> 0, kind |-> "none", id |-> NilID, email |-> <<>>, msg |-> ""]

\* request.ToJSON(resWriter, map[string]string{"error": err.Error()}, 400)
ErrorResponse(msg) ==
    [status |-> StatusBadRequest, kind |-> "error", id |-> NilID, email |-> <<>>,
     msg |-> msg]

\* request.ToJSON(resWriter, user, http.StatusCreated): id and email of the
\* entity (the hashed password is not serialised)
UserResponse(user) ==
    [status |-> StatusCreated, kind |-> "user", id |-> user.ID, email |-> user.Email,
     msg |-> ""]

\* A request and what its handler goroutine did: hand tells that it goes
\* through the hand-wired pipeline (module_route handler, the use case that
\* validates the request) and not the generated one; repo is the repository the
\* use case holds, execDone / outUser / outErr are what Execute returned
\* (outUser is <<>> for a nil entity), validated the entities whose Validate
\* was called, given the entities passed to Create and got what Create
\* returned for them.
IdleRequest ==
    [pc |-> "idle", body |-> Body(0, TRUE, {}, <<>>, <<>>),
     resp |-> NoResponse, writes |-> 0, calls |-> NoCalls,
     atSignal |-> FALSE, afterSignal |-> FALSE, afterShutdown |-> FALSE,
     late |-> FALSE,
     repo |-> "memory", direct |-> FALSE,
     connection |-> "", panicked |-> FALSE, rvr |-> "", afterPanic |-> FALSE,
     execAtSignal |-> FALSE, hand |-> FALSE,
     execDone |-> FALSE, outUser |-> <<>>, outErr |-> NoErr,
     validated |-> <<>>, given |-> <<>>, got |-> <<>>]

Largest(S) == CHOOSE n \in S : \A m \in S : m <= n

RequestIds ==
    1..Largest({MaxRequests, MaxSeqRequests, MaxCalls, MaxCreates, MaxConcurrent,
                2 * MaxCompared})

InFlightPcs == {"accepted", "valid", "hashed"}

InFlight == {r \in RequestIds : reqs[r].pc \in InFlightPcs}

Seen == {r \in RequestIds : reqs[r].pc # "idle"}

Done == {r \in RequestIds : reqs[r].pc = "done"}

ShutdownErr == "server shutdown: context deadline exceeded"

ListenErr == "listen tcp: bind: address already in use"

AcceptErr == "accept tcp: use of closed network connection"

Init ==
    /\ mpc = "load"
    /\ exitCode = <<>>
    /\ cstatus = <<>>
    /\ ctxDone = FALSE
    /\ inShutdown = FALSE
    /\ lpc = "none"
    /\ lerr = NoErr
    /\ errCh = <<>>
    /\ ret = "pending"
    /\ elapsed = 0
    /\ reqs = [r \in RequestIds |-> IdleRequest]
    /\ nreq = 0
    /\ uuidCount = 0
    /\ health = {}
    /\ nhealth = 0
    /\ hpending = 0
    /\ errSent = FALSE
    /\ built = <<>>

\* the process is gone: every goroutine stops where it is
Killed(rs) ==
    [r \in RequestIds |->
        IF rs[r].pc \in InFlightPcs THEN [rs[r] EXCEPT !.pc = "killed"] ELSE rs[r]]

\* logger.L().Fatalf: os.Exit(1), deferred calls do not run
Fatalf ==
    /\ mpc' = "exited"
    /\ exitCode' = <<1>>
    /\ reqs' = Killed(reqs)
    /\ lpc' = IF lpc \in {"none", "done"} THEN lpc ELSE "dead"

\* ------------------------------------------------------------------------
\* main
\* ------------------------------------------------------------------------

\* main: cfg, err := config.Load(); a missing DB_* variable is an error;
\* then signal.NotifyContext
MainLoadConfig ==
    /\ mpc = "load"
    /\ \E ok \in BOOLEAN :
          IF ok
          THEN /\ mpc' = "container"
               /\ UNCHANGED <<exitCode, reqs, lpc, built>>
          ELSE Fatalf
    /\ UNCHANGED <<cstatus, ctxDone, inShutdown, lerr, errCh, ret, elapsed,
                   nreq, uuidCount, health, nhealth, hpending, errSent, built>>

\* What construction builds.  An instance is the stage it is, its identity
\* (the n-th object allocated) and the identity of the instance it was
\* given (NoInstance when it takes none).
NoInstance == <<>>

Instance(stage, n, given) == [stage |-> stage, id |-> <<n>>, uses |-> given]

\* ProvideUserRepository: infrastructure.NewUserRepository()
ProvideUserRepository(n) == Instance("repository", n, NoInstance)

\* ProvideSignUpUseCase: authUseCase.NewSignUpUseCase(userRepo)
ProvideSignUpUseCaseOwnRepository(userRepo, n) ==
    Instance("usecase", n, ProvideUserRepository(n).id)

ProvideSignUpUseCase(userRepo, n) == Instance("usecase", n, userRepo.id)

\* ProvideAuthHandler: auth.NewAuthHandler({SignUpUseCase: signUpUseCase})
ProvideAuthHandler(signUpUseCase, n) == Instance("handler", n, signUpUseCase.id)

\* ProvideRouter: router.NewRouter({AuthHandler: authHandler})
ProvideRouter(authHandler, n) == Instance("router", n, authHandler.id)

\* ProvideContainer: &Container{Status: 1, Router: r}
ProvideContainer(r, n) == Instance("container", n, r.id)

\* the stages, in the order of their dependencies
Stages == <<"repository", "usecase", "handler", "router", "container">>

\* the steps of InitializeContainer (and of BootstrapHandler): each provider
\* is called with what the provider before it returned
BuildRepository ==
    /\ mpc = "container"
    /\ Len(built) = 0
    /\ built' = Append(built, ProvideUserRepository(Len(built) + 1))
    /\ UNCHANGED <<mpc, exitCode, cstatus, ctxDone, inShutdown, lpc, lerr, errCh,
                   ret, elapsed, reqs, nreq, uuidCount, health, nhealth, hpending, errSent>>

BuildUseCase ==
    /\ mpc = "container"
    /\ Len(built) = 1
    /\ built' = Append(built, ProvideSignUpUseCase(built[1], Len(built) + 1))
    /\ UNCHANGED <<mpc, exitCode, cstatus, ctxDone, inShutdown, lpc, lerr, errCh,
                   ret, elapsed, reqs, nreq, uuidCount, health, nhealth, hpending, errSent>>

BuildHandler ==
    /\ mpc = "container"
    /\ Len(built) = 2
    /\ built' = Append(built, ProvideAuthHandler(built[2], Len(built) + 1))
    /\ UNCHANGED <<mpc, exitCode, cstatus, ctxDone, inShutdown, lpc, lerr, errCh,
                   ret, elapsed, reqs, nreq, uuidCount, health, nhealth, hpending, errSent>>

BuildRouter ==
    /\ mpc = "container"
    /\ Len(built) = 3
    /\ built' = Append(built, ProvideRouter(built[3], Len(built) + 1))
    /\ UNCHANGED <<mpc, exitCode, cstatus, ctxDone, inShutdown, lpc, lerr, errCh,
                   ret, elapsed, reqs, nreq, uuidCount, health, nhealth, hpending, errSent>>

\* the instances of a finished construction
BuiltAll ==
    LET repo == ProvideUserRepository(1)
        uc == ProvideSignUpUseCase(repo, 2)
        h == ProvideAuthHandler(uc, 3)
        r == ProvideRouter(h, 4) IN
    <<repo, uc, h, r, ProvideContainer(r, 5)>>

\* CreateServerContainer: builds the router, Status 1; its error is always nil
CreateServerContainer == [status |-> 1, err |-> NoErr]

\* main: c, err := CreateServerContainer(); defer c.Close().  The last
\* provider builds the container around the router.
MainCreateContainer ==
    /\ mpc = "container"
    /\ Len(built) = 4
    /\ LET c == CreateServerContainer IN
          IF c.err # NoErr
          THEN Fatalf /\ UNCHANGED <<cstatus, built>>
          ELSE /\ cstatus' = <<c.status>>
               /\ built' = Append(built, ProvideContainer(built[4], Len(built) + 1))
               /\ mpc' = "start"
               /\ UNCHANGED <<exitCode, reqs, lpc>>
    /\ UNCHANGED <<ctxDone, inShutdown, lerr, errCh, ret, elapsed,
                   nreq, uuidCount, health, nhealth, hpending, errSent>>

\* SIGINT or SIGTERM once NotifyContext is installed: ctx.Done() is closed.
\* Requests in flight at that moment are marked.
\* The context a handler gets is the request's, which the server derives
\* from context.Background(): the signal does not reach it.
Signal ==
    /\ mpc \in {"container", "start", "select", "returned"}
    /\ ~ctxDone
    /\ ctxDone' = TRUE
    /\ reqs' = [r \in RequestIds |->
                  IF reqs[r].pc \in InFlightPcs
                  THEN [reqs[r] EXCEPT !.atSignal = TRUE] ELSE reqs[r]]
    /\ UNCHANGED <<mpc, exitCode, cstatus, inShutdown, lpc, lerr, errCh, ret,
                   elapsed, nreq, uuidCount, health, nhealth, hpending, errSent, built>>

\* StartRestAPI: the server value, errCh := make(chan error, 1), go func()
StartServer ==
    /\ mpc = "start"
    /\ mpc' = "select"
    /\ lpc' = "spawned"
    /\ UNCHANGED <<exitCode, cstatus, ctxDone, inShutdown, lerr, errCh, ret,
                   elapsed, reqs, nreq, uuidCount, health, nhealth, hpending, errSent,
                   built>>

SelectDoneReturnsAtOnce ==
    /\ mpc = "select"
    /\ ctxDone
    /\ mpc' = "returned"
    /\ ret' = NoErr
    /\ UNCHANGED <<exitCode, cstatus, ctxDone, inShutdown, lpc, lerr, errCh,
                   elapsed, reqs, nreq, uuidCount, health, nhealth, hpending, errSent,
                   built>>

\* select, case <-ctx.Done(): server.Shutdown(shutdownCtx) is called; it sets
\* inShutdown and closes the listeners, and the 10 s timer starts
SelectDone ==
    /\ mpc = "select"
    /\ ctxDone
    /\ mpc' = "shutdown"
    /\ inShutdown' = TRUE
    /\ elapsed' = 0
    /\ UNCHANGED <<exitCode, cstatus, ctxDone, lpc, lerr, errCh, ret, reqs,
                   nreq, uuidCount, health, nhealth, hpending, errSent, built>>

\* select, case err := <-errCh: return err
SelectErr ==
    /\ mpc = "select"
    /\ errCh # <<>>
    /\ ret' = Head(errCh)
    /\ errCh' = Tail(errCh)
    /\ mpc' = "returned"
    /\ UNCHANGED <<exitCode, cstatus, ctxDone, inShutdown, lpc, lerr, elapsed,
                   reqs, nreq, uuidCount, health, nhealth, hpending, errSent, built>>

ShutdownWithoutWaiting ==
    /\ mpc = "shutdown"
    /\ ret' = NoErr
    /\ mpc' = "returned"
    /\ UNCHANGED <<exitCode, cstatus, ctxDone, inShutdown, lpc, lerr, errCh,
                   elapsed, reqs, nreq, uuidCount, health, nhealth, hpending, errSent,
                   built>>

\* server.Shutdown finds every connection idle (no sign-up and no health
\* probe is being served): it returns nil and StartRestAPI returns nil
ShutdownComplete ==
    /\ mpc = "shutdown"
    /\ InFlight = {}
    /\ hpending = 0
    /\ ret' = NoErr
    /\ mpc' = "returned"
    /\ UNCHANGED <<exitCode, cstatus, ctxDone, inShutdown, lpc, lerr, errCh,
                   elapsed, reqs, nreq, uuidCount, health, nhealth, hpending, errSent,
                   built>>

\* a second passes while Shutdown polls and some connection is still active
Tick ==
    /\ mpc = "shutdown"
    /\ InFlight # {} \/ hpending > 0
    /\ elapsed < ShutdownTimeout
    /\ elapsed' = elapsed + 1
    /\ UNCHANGED <<mpc, exitCode, cstatus, ctxDone, inShutdown, lpc, lerr, errCh,
                   ret, reqs, nreq, uuidCount, health, nhealth, hpending, errSent,
                   built>>

\* shutdownCtx expires: Shutdown returns ctx.Err() and leaves the active
\* connections as they are; StartRestAPI wraps and returns the error
ShutdownExpire ==
    /\ mpc = "shutdown"
    /\ elapsed = ShutdownTimeout
    /\ ret' = ShutdownErr
    /\ mpc' = "returned"
    /\ UNCHANGED <<exitCode, cstatus, ctxDone, inShutdown, lpc, lerr, errCh,
                   elapsed, reqs, nreq, uuidCount, health, nhealth, hpending, errSent,
                   built>>

\* main: if err := StartRestAPI(...); err != nil { Fatalf }, else main returns
\* and its deferred calls run
MainAfterStart ==
    /\ mpc = "returned"
    /\ IF ret # NoErr
       THEN Fatalf
       ELSE /\ mpc' = "deferred"
            /\ UNCHANGED <<exitCode, reqs, lpc, built>>
    /\ UNCHANGED <<cstatus, ctxDone, inShutdown, lerr, errCh, ret, elapsed,
                   nreq, uuidCount, health, nhealth, hpending, errSent, built>>

\* deferred c.Close(): Status = 0
ContainerClose ==
    /\ mpc = "deferred"
    /\ cstatus' = <<0>>
    /\ mpc' = "closed"
    /\ UNCHANGED <<exitCode, ctxDone, inShutdown, lpc, lerr, errCh, ret, elapsed,
                   reqs, nreq, uuidCount, health, nhealth, hpending, errSent, built>>

\* deferred stop(), main returns: exit status 0
MainExit ==
    /\ mpc = "closed"
    /\ mpc' = "exited"
    /\ exitCode' = <<0>>
    /\ reqs' = Killed(reqs)
    /\ lpc' = IF lpc \in {"none", "done"} THEN lpc ELSE "dead"
    /\ UNCHANGED <<cstatus, ctxDone, inShutdown, lerr, errCh, ret, elapsed,
                   nreq, uuidCount, health, nhealth, hpending, errSent, built>>

\* ------------------------------------------------------------------------
\* The listener goroutine (wire.go 85-90) and net/http's ListenAndServe
\* ------------------------------------------------------------------------

\* ListenAndServe begins: if srv.shuttingDown() { return ErrServerClosed },
\* which line 87 filters out
ListenCheck ==
    /\ lpc = "spawned"
    /\ lpc' = IF inShutdown THEN "done" ELSE "binding"
    /\ UNCHANGED <<mpc, exitCode, cstatus, ctxDone, inShutdown, lerr, errCh, ret,
                   elapsed, reqs, nreq, uuidCount, health, nhealth, hpending, errSent,
                   built>>

\* net.Listen fails (the port is taken), or succeeds and Serve starts; Serve
\* returns ErrServerClosed at once when Shutdown was called in between
ListenBind ==
    /\ lpc = "binding"
    /\ \E ok \in BOOLEAN :
          IF ~ok
          THEN lpc' = "failed" /\ lerr' = ListenErr
          ELSE lpc' = (IF inShutdown THEN "done" ELSE "serving") /\ lerr' = lerr
    /\ UNCHANGED <<mpc, exitCode, cstatus, ctxDone, inShutdown, errCh, ret,
                   elapsed, reqs, nreq, uuidCount, health, nhealth, hpending, errSent,
                   built>>

\* Accept fails for good while the server is not shutting down: Serve closes
\* the listener and returns that error
ListenerFail ==
    /\ lpc = "serving"
    /\ ~inShutdown
    /\ lpc' = "failed"
    /\ lerr' = AcceptErr
    /\ UNCHANGED <<mpc, exitCode, cstatus, ctxDone, inShutdown, errCh, ret,
                   elapsed, reqs, nreq, uuidCount, health, nhealth, hpending, errSent,
                   built>>

\* Shutdown closed the listener: Serve returns ErrServerClosed, nothing is sent
ServeClosed ==
    /\ lpc = "serving"
    /\ inShutdown
    /\ lpc' = "done"
    /\ UNCHANGED <<mpc, exitCode, cstatus, ctxDone, inShutdown, lerr, errCh, ret,
                   elapsed, reqs, nreq, uuidCount, health, nhealth, hpending, errSent,
                   built>>

\* errCh <- err: the channel has room for one error and this is the only send
\* (on a channel without a buffer the send would wait for the select)
SendErrUnbuffered ==
    /\ lpc = "failed"
    /\ mpc = "select"
    /\ Len(errCh) < 1
    /\ errCh' = Append(errCh, lerr)
    /\ errSent' = TRUE
    /\ lpc' = "done"
    /\ UNCHANGED <<mpc, exitCode, cstatus, ctxDone, inShutdown, lerr, ret,
                   elapsed, reqs, nreq, uuidCount, health, nhealth, hpending, built>>

SendErr ==
    /\ lpc = "failed"
    /\ Len(errCh) < 1
    /\ errCh' = Append(errCh, lerr)
    /\ errSent' = TRUE
    /\ lpc' = "done"
    /\ UNCHANGED <<mpc, exitCode, cstatus, ctxDone, inShutdown, lerr, ret,
                   elapsed, reqs, nreq, uuidCount, health, nhealth, hpending, built>>

\* the listener takes new connections
Accepting == lpc = "serving" /\ ~inShutdown /\ mpc # "exited"

\* ------------------------------------------------------------------------
\* Router and handlers
\* ------------------------------------------------------------------------

\* r.Get("/health", ...): w.Write([]byte("ok")), status 200 by default.
\* The handler reads nothing: the container status is passed to show it.
HealthHandlerReadsState(status) ==
    IF status = <<1>> /\ InFlight = {} THEN [status |-> StatusOK, body |-> "ok"]
    ELSE [status |-> StatusBadRequest, body |-> "busy"]

HealthHandler(status) == [status |-> StatusOK, body |-> "ok"]

\* GET /health arrives: the listener accepts the connection and net/http
\* starts a goroutine for it; the handler has not run yet
HealthAccept ==
    /\ Accepting
    /\ nhealth + hpending < MaxHealth
    /\ hpending' = hpending + 1
    /\ UNCHANGED <<mpc, exitCode, cstatus, ctxDone, inShutdown, lpc, lerr, errCh,
                   ret, elapsed, reqs, nreq, uuidCount, health, nhealth, errSent,
                   built>>

\* the goroutine of an accepted probe runs the handler and writes the
\* answer, whatever main and the listener have done in between; it runs
\* as long as the process lives
HealthHandle ==
    /\ mpc # "exited"
    /\ hpending > 0
    /\ hpending' = hpending - 1
    /\ health' = health \cup {HealthHandler(cstatus)}
    /\ nhealth' = nhealth + 1
    /\ UNCHANGED <<mpc, exitCode, cstatus, ctxDone, inShutdown, lpc, lerr, errCh,
                   ret, elapsed, reqs, nreq, uuidCount, errSent, built>>

\* POST /api/v1/auth/sign-up arrives with body b and is accepted; conn is
\* what r.Header.Get("Connection") will return ("" when the header is absent)
AcceptWith(b, max, conn) ==
    /\ Accepting
    /\ nreq < max
    /\ nreq' = nreq + 1
    /\ reqs' = [reqs EXCEPT ![nreq + 1] =
                  [IdleRequest EXCEPT !.pc = "accepted", !.body = b,
                                      !.connection = conn,
                                      !.afterSignal = ctxDone,
                                      !.afterShutdown = inShutdown,
                                      !.afterPanic =
                                          \E q \in RequestIds : reqs[q].panicked]]
    /\ UNCHANGED <<mpc, exitCode, cstatus, ctxDone, inShutdown, lpc, lerr, errCh,
                   ret, elapsed, uuidCount, health, nhealth, hpending, errSent,
                   built>>

\* the same for a request without a Connection header
Accept(b, max) == AcceptWith(b, max, "")

\* request.ToJSON(resWriter, ..., status) followed by return
Respond(req, resp) ==
    [req EXCEPT !.pc = "done", !.resp = resp, !.writes = @ + 1,
                !.late = (ret = ShutdownErr)]

\* AuthHandler.SignUp, lines 39-55: decode, transport validation
\* (payload.Validate(), line 46), conversion to dto.SignUpInput; the request
\* then enters SignUpUseCase.Execute
SignUpDecodeMissingReturn(req) ==
    LET d == FromJSON(req.body)
        verr == SignUpRequestValidate(d.email, d.password) IN
    IF d.err # NoErr THEN Respond(req, ErrorResponse(d.err))
    ELSE IF verr # NoErr
    THEN [Respond(req, ErrorResponse(verr)) EXCEPT !.pc = "valid",
                                                   !.calls.execute = @ + 1]
    ELSE [req EXCEPT !.pc = "valid", !.calls.execute = @ + 1]

SignUpDecode(req) ==
    LET d == FromJSON(req.body)
        verr == SignUpRequestValidate(d.email, d.password) IN
    IF d.err # NoErr THEN Respond(req, ErrorResponse(d.err))
    ELSE IF verr # NoErr THEN Respond(req, ErrorResponse(verr))
    ELSE [req EXCEPT !.pc = "valid", !.calls.execute = @ + 1]

\* Execute returns (user, err): user is <<>> for nil
ReturnWrapsError(req, user, err) ==
    [req EXCEPT !.execDone = TRUE, !.outUser = user,
                !.outErr = IF err = NoErr THEN NoErr ELSE "sign up failed"]

Return(req, user, err) ==
    [req EXCEPT !.execDone = TRUE, !.outUser = user, !.outErr = err]

\* AuthHandler.SignUp, lines 57-63: 400 with the error's message when
\* Execute returned an error, 201 with the entity otherwise
HandlerAnswerOkOnError(req) ==
    IF req.outErr # NoErr
    THEN Respond(req, [ErrorResponse(req.outErr) EXCEPT !.status = StatusOK])
    ELSE Respond(req, UserResponse(req.outUser[1]))

HandlerAnswer(req) ==
    IF req.outErr # NoErr
    THEN Respond(req, ErrorResponse(req.outErr))
    ELSE Respond(req, UserResponse(req.outUser[1]))

\* Execute, lines 66-69: hash the password; an error is returned with a nil
\* entity
ExecuteHashIgnoresError(req) ==
    [req EXCEPT !.pc = "hashed", !.calls.hash = @ + 1]

ExecuteHash(req) ==
    LET p == PayloadOf(req.body)
        h == GenerateFromPassword(p.password) IN
    IF h.err # NoErr
    THEN HandlerAnswer(Return([req EXCEPT !.calls.hash = @ + 1], <<>>, h.err))
    ELSE [req EXCEPT !.pc = "hashed", !.calls.hash = @ + 1]

\* Execute, lines 71-85: build the entity, validate it, call Create once and
\* return what it returned
ExecuteCreate(req, fresh) ==
    LET p == PayloadOf(req.body)
        du == NewUser(p.email, GenerateFromPassword(p.password).hashed)
        verr == UserValidate(du)
        c == RepoCreate(req.repo, du, fresh)
        checked == [req EXCEPT !.calls.validate = @ + 1,
                               !.validated = Append(@, du)]
        called == [checked EXCEPT !.calls.create = @ + 1,
                                  !.given = Append(@, du),
                                  !.got = Append(@, c)] IN
    IF verr # NoErr THEN HandlerAnswer(Return(checked, <<>>, verr))
    ELSE IF c.err # NoErr THEN HandlerAnswer(Return(called, <<>>, c.err))
    ELSE HandlerAnswer(Return(called, <<c.user>>, NoErr))

\* one step of the handler goroutine of request r
HandleDecode(r) ==
    /\ mpc # "exited"
    /\ reqs[r].pc = "accepted"
    /\ ~reqs[r].hand
    /\ reqs' = [reqs EXCEPT ![r] = SignUpDecode(reqs[r])]
    /\ UNCHANGED <<mpc, exitCode, cstatus, ctxDone, inShutdown, lpc, lerr, errCh,
                   ret, elapsed, nreq, uuidCount, health, nhealth, hpending, errSent,
                   built>>

HandleHash(r) ==
    /\ mpc # "exited"
    /\ reqs[r].pc = "valid"
    /\ ~reqs[r].hand
    /\ reqs' = [reqs EXCEPT ![r] = ExecuteHash(reqs[r])]
    /\ UNCHANGED <<mpc, exitCode, cstatus, ctxDone, inShutdown, lpc, lerr, errCh,
                   ret, elapsed, nreq, uuidCount, health, nhealth, hpending, errSent,
                   built>>

\* uuid.New() draws a random version-4 identifier; it is taken never to
\* repeat, so the n-th identifier drawn is written n.  (A repository that
\* numbered entities by a counter of the requests seen would repeat.)
HandleCreateSharedCounter(r) ==
    /\ mpc # "exited"
    /\ reqs[r].pc = "hashed"
    /\ reqs' = [reqs EXCEPT ![r] = ExecuteCreate(reqs[r], nreq)]
    /\ uuidCount' = uuidCount + (IF reqs[r].repo = "memory"
                                 THEN reqs'[r].calls.create ELSE 0)
    /\ UNCHANGED <<mpc, exitCode, cstatus, ctxDone, inShutdown, lpc, lerr, errCh,
                   ret, elapsed, nreq, health, nhealth, hpending, errSent, built>>

HandleCreate(r) ==
    /\ mpc # "exited"
    /\ reqs[r].pc = "hashed"
    /\ reqs' = [reqs EXCEPT ![r] = ExecuteCreate(reqs[r], uuidCount + 1)]
    /\ uuidCount' = uuidCount + (IF reqs[r].repo = "memory"
                                 THEN reqs'[r].calls.create ELSE 0)
    /\ UNCHANGED <<mpc, exitCode, cstatus, ctxDone, inShutdown, lpc, lerr, errCh,
                   ret, elapsed, nreq, health, nhealth, hpending, errSent, built>>

\* panics explored while the program runs
MaxPanics == 1

Panicked == {r \in RequestIds : reqs[r].panicked}

\* the values a handler panics with: any value, or the sentinel
\* http.ErrAbortHandler
ErrAbortHandler == "net/http: abort Handler"

PanicInputs == {"boom", ErrAbortHandler}

\* the requests sent to handlers that may panic: a body and the Connection
\* header, absent or Upgrade
PanicRequests ==
    { <<b, "">> : b \in LifecycleBodies }
    \cup { <<Body(SmallBody, TRUE, KnownFields, ValidEmail, ValidPassword),
             "Upgrade">> }

\* the response middleware.Recoverer writes: the status alone
PanicResponse ==
    [status |-> StatusInternalServerError, kind |-> "panic", id |-> NilID,
     email |-> <<>>, msg |-> ""]

\* what net/http sends when a handler returns without having written:
\* status 200 and no body
EmptyResponse ==
    [status |-> StatusOK, kind |-> "empty", id |-> NilID, email |-> <<>>,
     msg |-> ""]

\* net/http when a panic reaches it: the connection is closed, nothing is
\* written
Abort(req) == [req EXCEPT !.pc = "aborted"]

\* middleware.Recoverer, the deferred function, with rvr := recover():
\*   if rvr == http.ErrAbortHandler { panic(rvr) }
\*   if r.Header.Get("Connection") != "Upgrade" { w.WriteHeader(500) }
\* and then the handler returns normally
Recoverer(req, rvr) ==
    IF rvr = ErrAbortHandler THEN Abort(req)
    ELSE IF req.connection # "Upgrade" THEN Respond(req, PanicResponse)
    ELSE Respond(req, EmptyResponse)

\* The handler of request r panics with value rvr where it is.  Without the
\* middleware the panic reaches net/http, which closes the connection and
\* writes nothing.
HandlerPanicNoRecoverer(r, rvr) ==
    /\ mpc # "exited"
    /\ reqs[r].pc \in InFlightPcs
    /\ Cardinality(Panicked) < MaxPanics
    /\ reqs' = [reqs EXCEPT ![r] = Abort([@ EXCEPT !.panicked = TRUE, !.rvr = rvr])]
    /\ UNCHANGED <<mpc, exitCode, cstatus, ctxDone, inShutdown, lpc, lerr, errCh,
                   ret, elapsed, nreq, uuidCount, health, nhealth, hpending,
                   errSent, built>>

\* r.Use(middleware.Recoverer): the deferred function of the middleware
\* recovers the panic; the handler's goroutine ends there and nothing else
\* is touched.
HandlerPanic(r, rvr) ==
    /\ mpc # "exited"
    /\ reqs[r].pc \in InFlightPcs
    /\ Cardinality(Panicked) < MaxPanics
    /\ reqs' = [reqs EXCEPT ![r] =
                  Recoverer([@ EXCEPT !.panicked = TRUE, !.rvr = rvr], rvr)]
    /\ UNCHANGED <<mpc, exitCode, cstatus, ctxDone, inShutdown, lpc, lerr, errCh,
                   ret, elapsed, nreq, uuidCount, health, nhealth, hpending,
                   errSent, built>>

\* ------------------------------------------------------------------------
\* Specifications
\* ------------------------------------------------------------------------

\* the whole program: startup, requests served concurrently, shutdown
Next ==
    \/ MainLoadConfig
    \/ BuildRepository
    \/ BuildUseCase
    \/ BuildHandler
    \/ BuildRouter
    \/ MainCreateContainer
    \/ Signal
    \/ StartServer
    \/ SelectDone
    \/ SelectErr
    \/ ShutdownComplete
    \/ Tick
    \/ ShutdownExpire
    \/ MainAfterStart
    \/ ContainerClose
    \/ MainExit
    \/ ListenCheck
    \/ ListenBind
    \/ ListenerFail
    \/ ServeClosed
    \/ SendErr
    \/ HealthAccept
    \/ HealthHandle
    \/ \E b \in LifecycleBodies : Accept(b, MaxRequests)
    \/ \E r \in RequestIds : HandleDecode(r)
    \/ \E r \in RequestIds : HandleHash(r)
    \/ \E r \in RequestIds : HandleCreate(r)

Spec == Init /\ [][Next]_vars


\* the server is listening (a state Spec reaches) and sign-up requests are
\* handled one after the other, over the full set of bodies
InitServing ==
    /\ mpc = "select"
    /\ exitCode = <<>>
    /\ cstatus = <<1>>
    /\ ctxDone = FALSE
    /\ inShutdown = FALSE
    /\ lpc = "serving"
    /\ lerr = NoErr
    /\ errCh = <<>>
    /\ ret = "pending"
    /\ elapsed = 0
    /\ reqs = [r \in RequestIds |-> IdleRequest]
    /\ nreq = 0
    /\ uuidCount = 0
    /\ health = {}
    /\ nhealth = 0
    /\ hpending = 0
    /\ errSent = FALSE
    /\ built = BuiltAll

\* the listening server with handlers that may panic: sign-up requests,
\* with or without the Upgrade header, and health probes, served
\* concurrently
PanicNext ==
    \/ \E r \in RequestIds, rvr \in PanicInputs : HandlerPanic(r, rvr)
    \/ HealthAccept
    \/ HealthHandle
    \/ \E q \in PanicRequests : AcceptWith(q[1], MaxRequests, q[2])
    \/ \E r \in RequestIds : HandleDecode(r)
    \/ \E r \in RequestIds : HandleHash(r)
    \/ \E r \in RequestIds : HandleCreate(r)

PanicSpec == InitServing /\ [][PanicNext]_vars

SignUpNext ==
    \/ \E b \in BodyInputs : InFlight = {} /\ Accept(b, MaxSeqRequests)
    \/ \E r \in RequestIds : HandleDecode(r)
    \/ \E r \in RequestIds : HandleHash(r)
    \/ \E r \in RequestIds : HandleCreate(r)

SignUpSpec == InitServing /\ [][SignUpNext]_vars

\* what Execute is called with when it is called without the handler's
\* checks before it
DirectInputs ==
    { [email |-> e, password |-> p] : e \in EmailInputs, p \in PasswordInputs }

\* h.signUpUseCase.Execute(r.Context(), input) for any input, on a use case
\* built with repository repo
CallExecute(input, repo) ==
    /\ Accepting
    /\ InFlight = {}
    /\ nreq < MaxCalls
    /\ nreq' = nreq + 1
    /\ reqs' = [reqs EXCEPT ![nreq + 1] =
                  [IdleRequest EXCEPT
                      !.pc = "valid",
                      !.body = Body(SmallBody, TRUE, KnownFields,
                                    input.email, input.password),
                      !.repo = repo, !.direct = TRUE,
                      !.calls.execute = @ + 1]]
    /\ UNCHANGED <<mpc, exitCode, cstatus, ctxDone, inShutdown, lpc, lerr, errCh,
                   ret, elapsed, uuidCount, health, nhealth, hpending, errSent, built>>

\* the use case on its own: Execute reached through the handler and called
\* with any input, over both repositories, one call after the other
UseCaseNext ==
    \/ \E b \in BodyInputs : InFlight = {} /\ Accept(b, MaxCalls)
    \/ \E i \in DirectInputs, repo \in Repositories : CallExecute(i, repo)
    \/ \E r \in RequestIds : HandleDecode(r)
    \/ \E r \in RequestIds : HandleHash(r)
    \/ \E r \in RequestIds : HandleCreate(r)

UseCaseSpec == InitServing /\ [][UseCaseNext]_vars

\* the entities a caller hands to Create: with or without an identifier
\* (none, one of another origin, one this repository issued earlier), with
\* any email and hashed password, with or without timestamps
Candidates ==
    { [ID |-> id, Email |-> e, HashedPassword |-> h,
       CreatedAt |-> t[1], UpdatedAt |-> t[2]] :
          id \in {NilID, 0 - 1} \cup 1..uuidCount,
          e \in {<<>>, ValidEmail, <<"E'", "@", "B">>,
                 <<"P", "@", "b", ".", "c">>},
          h \in {<<"$2a$", "p">>, <<"$2a$", "P", "A">>},
          t \in {<< <<>>, <<>> >>, << <<"t1">>, <<>> >>, << <<"t1">>, <<"t2">> >>} }

\* UserRepository.Create called with candidate du
CallCreate(du) ==
    /\ nreq < MaxCreates
    /\ nreq' = nreq + 1
    /\ uuidCount' = uuidCount + 1
    /\ reqs' = [reqs EXCEPT ![nreq + 1] =
                  [IdleRequest EXCEPT
                      !.pc = "done", !.direct = TRUE,
                      !.calls.create = @ + 1,
                      !.given = Append(@, du),
                      !.got = Append(@, Create(du, uuidCount + 1))]]
    /\ UNCHANGED <<mpc, exitCode, cstatus, ctxDone, inShutdown, lpc, lerr, errCh,
                   ret, elapsed, health, nhealth, hpending, errSent, built>>

\* the in-memory repository on its own: Create called again and again
RepositoryNext == \E du \in Candidates : CallCreate(du)

RepositorySpec == InitServing /\ [][RepositoryNext]_vars

\* The signal arrives while request r is inside Execute (after the handler's
\* checks, before Create has returned): the step Signal, taken at that
\* moment, with the requests inside Execute marked as such.
SignalInExecuteCancels(r) ==
    /\ mpc \in {"select", "returned"}
    /\ ~ctxDone
    /\ reqs[r].pc \in {"valid", "hashed"}
    /\ ctxDone' = TRUE
    /\ reqs' = [q \in RequestIds |->
                  IF reqs[q].pc \in {"valid", "hashed"}
                  THEN Respond([reqs[q] EXCEPT !.atSignal = TRUE,
                                               !.execAtSignal = TRUE],
                               ErrorResponse("context canceled"))
                  ELSE IF reqs[q].pc \in InFlightPcs
                  THEN [reqs[q] EXCEPT !.atSignal = TRUE]
                  ELSE reqs[q]]
    /\ UNCHANGED <<mpc, exitCode, cstatus, inShutdown, lpc, lerr, errCh, ret,
                   elapsed, nreq, uuidCount, health, nhealth, hpending, errSent, built>>

SignalInExecute(r) ==
    /\ mpc \in {"select", "returned"}
    /\ ~ctxDone
    /\ reqs[r].pc \in {"valid", "hashed"}
    /\ ctxDone' = TRUE
    /\ reqs' = [q \in RequestIds |->
                  IF reqs[q].pc \in {"valid", "hashed"}
                  THEN [reqs[q] EXCEPT !.atSignal = TRUE, !.execAtSignal = TRUE]
                  ELSE IF reqs[q].pc \in InFlightPcs
                  THEN [reqs[q] EXCEPT !.atSignal = TRUE]
                  ELSE reqs[q]]
    /\ UNCHANGED <<mpc, exitCode, cstatus, inShutdown, lpc, lerr, errCh, ret,
                   elapsed, nreq, uuidCount, health, nhealth, hpending, errSent, built>>

\* the server listens, requests are served concurrently, and the signal
\* comes while one of them is inside Execute; then the shutdown, as in Spec
CancelNext ==
    \/ \E b \in LifecycleBodies : Accept(b, MaxRequests)
    \/ \E r \in RequestIds : HandleDecode(r)
    \/ \E r \in RequestIds : HandleHash(r)
    \/ \E r \in RequestIds : HandleCreate(r)
    \/ \E r \in RequestIds : SignalInExecute(r)
    \/ SelectDone
    \/ SelectErr
    \/ ShutdownComplete
    \/ Tick
    \/ ShutdownExpire
    \/ MainAfterStart
    \/ ContainerClose
    \/ MainExit
    \/ ListenerFail
    \/ ServeClosed
    \/ SendErr

CancelSpec == InitServing /\ [][CancelNext]_vars

\* The hand-wired pipeline.  module_route AuthHandler.SignUp, lines 26-31:
\* decode, no validation, straight into Execute
SignUpDecodeHandWired(req) ==
    LET d == FromJSON(req.body) IN
    IF d.err # NoErr THEN Respond(req, ErrorResponse(d.err))
    ELSE [req EXCEPT !.pc = "valid", !.calls.execute = @ + 1]

\* Execute of the hand-wired use case, lines 21-28: req.Validate() first,
\* then the hash; the handler's lines 33-37 answer 400 to either error
ExecuteValidateHash(req) ==
    LET p == PayloadOf(req.body)
        verr == Validate(p.email, p.password)
        h == GenerateFromPassword(p.password) IN
    IF verr # NoErr THEN HandlerAnswer(Return(req, <<>>, verr))
    ELSE IF h.err # NoErr
    THEN HandlerAnswer(Return([req EXCEPT !.calls.hash = @ + 1], <<>>, h.err))
    ELSE [req EXCEPT !.pc = "hashed", !.calls.hash = @ + 1]

HandleDecodeHandWired(r) ==
    /\ mpc # "exited"
    /\ reqs[r].pc = "accepted"
    /\ reqs[r].hand
    /\ reqs' = [reqs EXCEPT ![r] = SignUpDecodeHandWired(reqs[r])]
    /\ UNCHANGED <<mpc, exitCode, cstatus, ctxDone, inShutdown, lpc, lerr, errCh,
                   ret, elapsed, nreq, uuidCount, health, nhealth, hpending, errSent, built>>

HandleHashHandWired(r) ==
    /\ mpc # "exited"
    /\ reqs[r].pc = "valid"
    /\ reqs[r].hand
    /\ reqs' = [reqs EXCEPT ![r] = ExecuteValidateHash(reqs[r])]
    /\ UNCHANGED <<mpc, exitCode, cstatus, ctxDone, inShutdown, lpc, lerr, errCh,
                   ret, elapsed, nreq, uuidCount, health, nhealth, hpending, errSent, built>>

\* the same body arrives at a server of each wiring: request nreq + 1 goes
\* through the generated pipeline, request nreq + 2 through the hand-wired
AcceptBoth(b) ==
    /\ Accepting
    /\ InFlight = {}
    /\ nreq < 2 * MaxCompared
    /\ nreq' = nreq + 2
    /\ reqs' = [reqs EXCEPT
                  ![nreq + 1] = [IdleRequest EXCEPT !.pc = "accepted", !.body = b],
                  ![nreq + 2] = [IdleRequest EXCEPT !.pc = "accepted", !.body = b,
                                                    !.hand = TRUE]]
    /\ UNCHANGED <<mpc, exitCode, cstatus, ctxDone, inShutdown, lpc, lerr, errCh,
                   ret, elapsed, uuidCount, health, nhealth, hpending, errSent, built>>

\* both pipelines, each body given to one request of each
PipelinesNext ==
    \/ \E b \in BodyInputs : AcceptBoth(b)
    \/ \E r \in RequestIds : HandleDecode(r)
    \/ \E r \in RequestIds : HandleHash(r)
    \/ \E r \in RequestIds : HandleDecodeHandWired(r)
    \/ \E r \in RequestIds : HandleHashHandWired(r)
    \/ \E r \in RequestIds : HandleCreate(r)

PipelinesSpec == InitServing /\ [][PipelinesNext]_vars

\* the bodies sent together: two spellings of one address, a short and an
\* oversized password, a body that does not decode
ConcurrentBodies ==
    { Body(SmallBody, TRUE, KnownFields, ValidEmail, ValidPassword),
      Body(SmallBody, TRUE, KnownFields, ToLower(ValidEmail), ValidPassword),
      Body(SmallBody, TRUE, KnownFields, ValidEmail, Rep("p", MinPasswordLen - 1)),
      Body(SmallBody, TRUE, KnownFields, ValidEmail, Rep("p", BcryptMaxBytes + 1)),
      Body(SmallBody, FALSE, KnownFields, ValidEmail, ValidPassword) }

\* the handlers alone: requests arrive while others are in flight, and the
\* goroutines of the requests take their steps in any order
ConcurrentNext ==
    \/ \E b \in ConcurrentBodies : Accept(b, MaxConcurrent)
    \/ \E r \in RequestIds : HandleDecode(r)
    \/ \E r \in RequestIds : HandleHash(r)
    \/ \E r \in RequestIds : HandleCreate(r)

ConcurrentSpec == InitServing /\ [][ConcurrentNext]_vars

\* ------------------------------------------------------------------------
\* Vocabulary of the properties
\* ------------------------------------------------------------------------

Decoded(r) == FromJSON(reqs[r].body)

Sent(r) == PayloadOf(reqs[r].body)

HasUpper(s) == \E i \in 1..Len(s) : s[i] \in Upper \cup {"E'"}

\* the body decodes, its email is an email, its password has 5 runes or more
ValidAsSpecified(r) ==
    /\ Decoded(r).err = NoErr
    /\ IsEmail(Decoded(r).email)
    /\ RuneLen(Decoded(r).password) >= MinPasswordLen

\* ... and the password is one bcrypt hashes
ValidInput(r) ==
    /\ ValidAsSpecified(r)
    /\ ByteLen(Decoded(r).password) <= BcryptMaxBytes

Answered201(r) ==
    /\ reqs[r].resp.status = StatusCreated
    /\ reqs[r].resp.kind = "user"
    /\ reqs[r].resp.id # NilID
    /\ \A q \in Done \ {r} :
          reqs[q].resp.status = StatusCreated => reqs[q].resp.id # reqs[r].resp.id
    /\ reqs[r].resp.email = ToLower(Decoded(r).email)
    /\ ~HasUpper(reqs[r].resp.email)

Answered400(r) ==
    /\ reqs[r].resp.status = StatusBadRequest
    /\ reqs[r].resp.kind = "error"

\* ------------------------------------------------------------------------
\* C1 (as claimed): every sign-up with a valid email and a password of 5
\* characters or more, of any length, is answered 201 with a non-empty new
\* identifier and the lowercased email.
\* ------------------------------------------------------------------------
C1_AnyLengthCreated ==
    \A r \in Done : ValidAsSpecified(r) => Answered201(r)

\* C1 (amended): every sign-up with a valid email and a password of at least
\* 5 characters and at most 72 bytes is answered 201 with a non-empty
\* identifier that differs from every identifier issued before, and the
\* lowercase form of the input email.
C1_ValidSignUpCreated ==
    \A r \in Done : ValidInput(r) => Answered201(r)

C1_Witness ==
    \E r, q \in Done :
        /\ q < r
        /\ ValidInput(r) /\ ValidInput(q)
        /\ HasUpper(Decoded(r).email)
        /\ ByteLen(Decoded(r).password) = BcryptMaxBytes
        /\ reqs[r].resp.status = StatusCreated
        /\ reqs[q].resp.status = StatusCreated

\* ------------------------------------------------------------------------
\* C2: a sign-up whose password has fewer than 5 characters (absent and
\* empty included) is answered 400 and Create is never called for it,
\* whatever the email is.
\* ------------------------------------------------------------------------
C2_ShortPasswordRejected ==
    \A r \in Seen :
        RuneLen(Sent(r).password) < MinPasswordLen =>
            /\ reqs[r].calls.create = 0
            /\ r \in Done => Answered400(r)

C2_Witness ==
    \E r, q \in Done :
        /\ RuneLen(Sent(r).password) = MinPasswordLen - 1
        /\ IsEmail(Sent(r).email)
        /\ Answered400(r)
        /\ "password" \notin reqs[q].body.fields
        /\ Answered400(q)

\* ------------------------------------------------------------------------
\* C3: a sign-up whose email is absent or not an email is answered 400 with
\* an error payload, whatever the password is, and neither the hasher nor
\* the repository is invoked.
\* ------------------------------------------------------------------------
C3_InvalidEmailRejected ==
    \A r \in Seen :
        ~IsEmail(Sent(r).email) =>
            /\ reqs[r].calls.hash = 0
            /\ reqs[r].calls.create = 0
            /\ r \in Done => Answered400(r)

C3_Witness ==
    \E r, q \in Done :
        /\ Sent(r).email # <<>>
        /\ ~IsEmail(Sent(r).email)
        /\ Decoded(r).err = NoErr
        /\ RuneLen(Sent(r).password) >= MinPasswordLen
        /\ Answered400(r)
        /\ "email" \notin reqs[q].body.fields
        /\ Answered400(q)

\* ------------------------------------------------------------------------
\* C4: a sign-up whose body fails decoding (unknown top-level field, more
\* than 1 MiB, not well-formed) is answered 400 with an error payload and
\* Execute is never invoked for it, even when its email and password are
\* valid.
\* ------------------------------------------------------------------------
FailsDecoding(r) ==
    \/ ~(reqs[r].body.fields \subseteq KnownFields)
    \/ reqs[r].body.size > MaxBodyBytes
    \/ ~reqs[r].body.wellFormed

C4_DecodeFailureRejected ==
    \A r \in Seen :
        FailsDecoding(r) =>
            /\ reqs[r].calls.execute = 0
            /\ r \in Done => Answered400(r)

C4_Witness ==
    \E r, q \in Done :
        /\ ~(reqs[r].body.fields \subseteq KnownFields)
        /\ SignUpRequestValidate(Sent(r).email, Sent(r).password) = NoErr
        /\ Answered400(r)
        /\ reqs[q].body.size > MaxBodyBytes
        /\ Answered400(q)

\* ------------------------------------------------------------------------
\* C5: after any sequence of valid sign-ups (bodies that decode, pass the
\* validation rules and carry a password bcrypt hashes), repeated emails
\* included, every request got 201 and the identifiers are pairwise
\* distinct: no uniqueness check on email rejects a request.
\* ------------------------------------------------------------------------
C5_RepeatedEmailsAllCreated ==
    (\A r \in Seen : ValidInput(r)) =>
        /\ \A r \in Done : reqs[r].resp.status = StatusCreated
        /\ \A r, q \in Done : r # q => reqs[r].resp.id # reqs[q].resp.id

C5_Witness ==
    /\ Cardinality(Done) >= 2
    /\ \A r \in Seen : ValidInput(r)
    /\ \E r, q \in Done :
          /\ r # q
          /\ Decoded(r).email = Decoded(q).email
          /\ Decoded(r).password = Decoded(q).password
          /\ reqs[r].resp.status = StatusCreated
          /\ reqs[q].resp.status = StatusCreated

\* ------------------------------------------------------------------------
\* C6: a GET /health the listening server accepts is answered 200 "ok",
\* whatever the container status, whatever the lifecycle has done since and
\* whatever sign-ups were handled or are in flight; answering it touches
\* neither the sign-up requests nor the repository, and an accepted probe
\* stays to be answered as long as the process lives.
\* ------------------------------------------------------------------------
C6_HealthAlwaysOk ==
    /\ [](health \subseteq {[status |-> StatusOK, body |-> "ok"]})
    /\ [][hpending' > hpending => Accepting]_vars
    /\ [][nhealth' # nhealth => /\ nhealth' = nhealth + 1
                                /\ hpending' = hpending - 1
                                /\ Cardinality(health') = 1
                                /\ reqs' = reqs
                                /\ uuidCount' = uuidCount]_vars
    /\ [][hpending' < hpending => nhealth' = nhealth + 1]_vars
    /\ [](hpending > 0 => ret # NoErr)

\* a probe was answered and another, accepted before server.Shutdown was
\* called, is still to be answered, while a sign-up is in flight and
\* another has been created
C6_Witness ==
    /\ nhealth > 0
    /\ hpending > 0
    /\ health # {}
    /\ inShutdown
    /\ InFlight # {}
    /\ \E r \in Done : reqs[r].resp.status = StatusCreated

\* what a request is answered when nothing interrupts it
NormalStatus(r) == IF ValidInput(r) THEN StatusCreated ELSE StatusBadRequest

\* StartRestAPI has returned
Returned == ret # "pending"

\* ------------------------------------------------------------------------
\* C7 (as claimed): a request in flight when the cancellation signal
\* arrives is completed with its normal response, no connection arriving
\* after the signal is accepted, and StartRestAPI returns within the 10 s
\* grace period.
\* ------------------------------------------------------------------------
C7_SignalCompletesInFlight ==
    /\ \A r \in Seen : reqs[r].atSignal => reqs[r].pc # "killed"
    /\ \A r \in Seen : ~reqs[r].afterSignal
    /\ mpc = "shutdown" => elapsed <= ShutdownTimeout

\* C7 (amended): once the main path has taken the cancellation branch and
\* called server.Shutdown, no further connection is accepted; StartRestAPI
\* returns nil only when every request that was in flight at the signal has
\* been completed with its normal response, which happens for the requests
\* that finish within the grace period; otherwise it returns the shutdown
\* error when the 10 seconds have elapsed, and never later.
C7_GracefulShutdown ==
    /\ \A r \in Seen : ~reqs[r].afterShutdown
    /\ elapsed <= ShutdownTimeout
    /\ (Returned /\ ret = NoErr) =>
          \A r \in Seen :
              reqs[r].atSignal =>
                  /\ reqs[r].pc = "done"
                  /\ reqs[r].resp.status = NormalStatus(r)
                  /\ ~reqs[r].late
    /\ ret = ShutdownErr => elapsed = ShutdownTimeout

C7_Witness ==
    /\ ret = NoErr
    /\ elapsed > 0
    /\ \E r \in Done :
          /\ reqs[r].atSignal
          /\ reqs[r].resp.status = StatusCreated
    /\ nreq < MaxRequests

\* ------------------------------------------------------------------------
\* C8: the process exits non-zero when configuration loading, container
\* construction or the server start fails, and then no later stage has run;
\* it exits zero when a shutdown triggered by the signal completes.
\* ------------------------------------------------------------------------
C8_ExitStatus ==
    mpc = "exited" =>
        /\ cstatus = <<>> => (exitCode = <<1>> /\ lpc = "none")
        /\ (lerr = ListenErr /\ errSent) => exitCode = <<1>>
        /\ (ctxDone /\ ret = NoErr) => exitCode = <<0>>
        /\ exitCode = <<0>> => (ctxDone /\ ret = NoErr)

\* ------------------------------------------------------------------------
\* C9: during shutdown new connections are refused, requests in flight get
\* up to 10 seconds, and a request still running when the 10 seconds expire
\* has its connection forcibly closed: nothing runs or is answered after
\* the deadline.
\* ------------------------------------------------------------------------
C9_ForcedCloseAfterTimeout ==
    /\ \A r \in Seen : ~reqs[r].afterShutdown
    /\ ret = ShutdownErr => InFlight = {}
    /\ \A r \in Done : ~reqs[r].late

\* ------------------------------------------------------------------------
\* C10: StartRestAPI never returns nil while a fatal listener error was
\* sent on the error channel.
\* ------------------------------------------------------------------------
C10_ListenerErrorReported ==
    (Returned /\ errSent) => ret # NoErr

\* ------------------------------------------------------------------------
\* The lifecycle states of section 4.8, read off the program:
\*   Starting     StartRestAPI waits in its select, the socket is not bound
\*   Listening    the listener accepts connections
\*   ShuttingDown server.Shutdown is running, or the listener has failed and
\*                its error is on its way to the main path
\*   Stopped      StartRestAPI has returned through the cancellation branch
\*   Crashed      StartRestAPI has returned the listener's error
\* ------------------------------------------------------------------------
State ==
    IF ret # "pending"
    THEN (IF ret \in {NoErr, ShutdownErr} THEN "Stopped" ELSE "Crashed")
    ELSE IF mpc = "shutdown" \/ lpc \in {"failed", "done"} THEN "ShuttingDown"
    ELSE IF lpc = "serving" THEN "Listening"
    ELSE IF mpc = "select" THEN "Starting"
    ELSE "None"

ChainStep(a, b) ==
    \/ a = b
    \/ a = "None" /\ b = "Starting"
    \/ a = "Starting" /\ b = "Listening"
    \/ a = "Listening" /\ b = "ShuttingDown"
    \/ a = "ShuttingDown" /\ b \in {"Stopped", "Crashed"}

\* ------------------------------------------------------------------------
\* C11 (as claimed): the lifecycle only moves along Starting -> Listening
\* -> ShuttingDown -> Stopped, with Crashed as the terminal failure state;
\* Listening is left for ShuttingDown only on the signal or on a fatal
\* listener error; Stopped and Crashed are never left; StartRestAPI returns
\* only in Stopped or Crashed, never while still Listening.
\* ------------------------------------------------------------------------
C11_LifecycleChain ==
    [][/\ ChainStep(State, State')
       /\ (State = "Listening" /\ State' = "ShuttingDown") =>
              (ctxDone \/ lerr' # NoErr)
       /\ (ret' # "pending") => (State' \in {"Stopped", "Crashed"} /\ ~Accepting')
      ]_vars

\* C11 (amended): the lifecycle moves along Starting -> Listening ->
\* ShuttingDown -> Stopped or Crashed, and also from Starting straight to
\* ShuttingDown when the signal or a bind failure comes before the socket is
\* bound; Listening and Starting are left for ShuttingDown only on the
\* signal or on a fatal listener error; Stopped and Crashed are never left;
\* StartRestAPI returns only in Stopped or Crashed, never while the listener
\* still accepts.
C11_Lifecycle ==
    [][/\ (ChainStep(State, State') \/ (State = "Starting" /\ State' = "ShuttingDown"))
       /\ (State \in {"Starting", "Listening"} /\ State' = "ShuttingDown") =>
              (ctxDone \/ lerr' # NoErr)
       /\ (ret' # "pending") => (State' \in {"Stopped", "Crashed"} /\ ~Accepting')
      ]_vars

C11_Witness ==
    /\ State = "Stopped"
    /\ \E r \in Done : reqs[r].resp.status = StatusCreated
    /\ lerr = NoErr
    /\ elapsed > 0

\* ------------------------------------------------------------------------
\* C12: every response of the sign-up endpoint is 201 with the entity the
\* orchestrator returned (the one the repository persisted) or 400 with an
\* error message; an orchestrator error of any kind is answered 400 with
\* its message, an orchestrator success 201, and there is no other status.
\* ------------------------------------------------------------------------
C12_CreatedOrBadRequest ==
    \A r \in Done :
        /\ \/ /\ reqs[r].execDone /\ reqs[r].outErr = NoErr
              /\ reqs[r].outUser # <<>> /\ reqs[r].got # <<>>
              /\ reqs[r].outUser[1] = reqs[r].got[1].user
              /\ reqs[r].resp = UserResponse(reqs[r].outUser[1])
              /\ reqs[r].resp.status = StatusCreated
           \/ /\ reqs[r].resp.status = StatusBadRequest
              /\ reqs[r].resp.kind = "error"
              /\ reqs[r].resp.msg # ""
        /\ (reqs[r].execDone /\ reqs[r].outErr # NoErr) =>
              reqs[r].resp = ErrorResponse(reqs[r].outErr)
        /\ (reqs[r].execDone /\ reqs[r].outErr = NoErr) =>
              reqs[r].resp.status = StatusCreated

\* an orchestrator error that is neither the decoder's nor the hash's: the
\* repository failed, and the handler answered 400 with its message
C12_Witness ==
    \E r \in Done : /\ reqs[r].execDone
                    /\ reqs[r].calls.create = 1
                    /\ reqs[r].outErr = CreateErr
                    /\ reqs[r].resp = ErrorResponse(CreateErr)

\* ------------------------------------------------------------------------
\* C13: when the entity Execute built fails its validation, Execute returns
\* an error and Create is not called; every entity passed to Create
\* satisfies the validation rule.
\* ------------------------------------------------------------------------
InvalidEntity(u) ==
    u.Email = <<>> \/ ~IsEmail(u.Email) \/ u.HashedPassword = <<>>

C13_InvalidEntityNotCreated ==
    \A r \in RequestIds :
        /\ \A i \in 1..Len(reqs[r].validated) :
              InvalidEntity(reqs[r].validated[i]) =>
                  /\ reqs[r].execDone
                  /\ reqs[r].outErr = UserValidate(reqs[r].validated[i])
                  /\ reqs[r].outUser = <<>>
                  /\ reqs[r].calls.create = 0
                  /\ reqs[r].given = <<>>
        /\ \A i \in 1..Len(reqs[r].given) :
              ~InvalidEntity(reqs[r].given[i])
        /\ reqs[r].calls.create > 0 => reqs[r].calls.validate > 0

C13_Witness ==
    \E r \in Done : /\ reqs[r].validated # <<>>
                    /\ reqs[r].validated[1].Email # <<>>
                    /\ InvalidEntity(reqs[r].validated[1])
                    /\ reqs[r].calls.create = 0
                    /\ reqs[r].outErr # NoErr

\* ------------------------------------------------------------------------
\* C14: when hashing the password fails, Execute returns that error as it
\* is with a nil entity, no entity is validated, Create is not called, and
\* the handler answers 400.
\* ------------------------------------------------------------------------
C14_HashFailureReturned ==
    \A r \in RequestIds :
        (/\ reqs[r].calls.hash > 0
         /\ GenerateFromPassword(Sent(r).password).err # NoErr) =>
            /\ reqs[r].pc = "done"
            /\ reqs[r].execDone
            /\ reqs[r].outErr = GenerateFromPassword(Sent(r).password).err
            /\ reqs[r].outUser = <<>>
            /\ reqs[r].calls.validate = 0 /\ reqs[r].validated = <<>>
            /\ reqs[r].calls.create = 0 /\ reqs[r].given = <<>>
            /\ reqs[r].resp.status = StatusBadRequest

C14_Witness ==
    \E r \in Done :
        /\ ~reqs[r].direct
        /\ reqs[r].calls.hash = 1
        /\ ByteLen(Sent(r).password) > BcryptMaxBytes
        /\ reqs[r].outErr = GenerateFromPassword(Sent(r).password).err
        /\ reqs[r].resp.status = StatusBadRequest

\* ------------------------------------------------------------------------
\* C15: a call of Execute calls Create at most once; when Create returns an
\* error Execute returns exactly that error with a nil entity and does not
\* call Create again; when Create succeeds Execute returns exactly the
\* entity Create returned.
\* ------------------------------------------------------------------------
C15_CreateAtMostOnce ==
    \A r \in RequestIds :
        /\ reqs[r].calls.execute <= 1
        /\ reqs[r].calls.create <= 1
        /\ Len(reqs[r].got) = reqs[r].calls.create
        /\ reqs[r].got # <<>> =>
              /\ reqs[r].execDone
              /\ IF reqs[r].got[1].err # NoErr
                 THEN reqs[r].outErr = reqs[r].got[1].err /\ reqs[r].outUser = <<>>
                 ELSE reqs[r].outErr = NoErr
                      /\ reqs[r].outUser = <<reqs[r].got[1].user>>

C15_Witness ==
    \E r \in Done : /\ reqs[r].calls.create = 1
                    /\ reqs[r].got[1].err = CreateErr
                    /\ reqs[r].got[1].user # NewUser(<<>>, <<>>)
                    /\ reqs[r].outErr = CreateErr
                    /\ reqs[r].outUser = <<>>

\* ------------------------------------------------------------------------
\* C16: the in-memory Create never returns an error; for every candidate,
\* also one carrying an id or timestamps, the returned entity has a new id
\* that differs from every id issued before and from the candidate's, the
\* lowercase form of the candidate's email, the candidate's hashedPassword
\* unchanged and none of its timestamps; the candidate is left unmodified.
\* ------------------------------------------------------------------------
C16_CreateNormalises ==
    \A r \in Seen : \A i \in 1..Len(reqs[r].got) :
        LET c == reqs[r].got[i]
            du == reqs[r].given[i] IN
        /\ c.err = NoErr
        /\ c.user.ID # NilID
        /\ c.user.ID # du.ID
        /\ \A q \in Seen : \A j \in 1..Len(reqs[q].got) :
              (q < r => reqs[q].got[j].user.ID # c.user.ID)
        /\ c.user.Email = ToLower(du.Email)
        /\ ~HasUpper(c.user.Email)
        /\ c.user.HashedPassword = du.HashedPassword
        /\ c.user.CreatedAt = <<>> /\ c.user.UpdatedAt = <<>>
        /\ c.arg = du

\* the second call is given the entity the first call returned, with
\* timestamps set since and an upper-case email
C16_Witness ==
    \E r, q \in Seen :
        /\ q < r
        /\ reqs[r].given[1].ID = reqs[q].got[1].user.ID
        /\ reqs[r].given[1].CreatedAt # <<>>
        /\ reqs[r].given[1].UpdatedAt # <<>>
        /\ HasUpper(reqs[r].given[1].Email)
        /\ HasUpper(reqs[r].given[1].HashedPassword)
        /\ reqs[r].got[1].user.ID # reqs[q].got[1].user.ID

\* ------------------------------------------------------------------------
\* C17 (as claimed): when a handler panics while serving a request, that
\* request is answered 500, the server stays in Listening (the lifecycle,
\* the process and every other request are where they were), and requests
\* that arrive afterwards, health and sign-up, are served as if there had
\* been no panic.
\* ------------------------------------------------------------------------
PanicStep == \E r \in RequestIds : ~reqs[r].panicked /\ reqs'[r].panicked

\* a panic changes nothing but the request whose handler panicked
PanicTouchesOneRequest ==
    PanicStep =>
        /\ State' = State
        /\ Accepting' = Accepting
        /\ \A q \in RequestIds : reqs[q].panicked = reqs'[q].panicked
                                  => reqs'[q] = reqs[q]
        /\ UNCHANGED <<mpc, exitCode, cstatus, ctxDone, inShutdown, lpc, lerr,
                       errCh, ret, elapsed, nreq, uuidCount, health, nhealth,
                       hpending, errSent, built>>

\* the requests whose handler did not panic are answered as usual and
\* health probes are taken and answered as before
OthersServedAsUsual ==
    /\ \A r \in Done \ Panicked :
          /\ reqs[r].resp.status = NormalStatus(r)
          /\ reqs[r].resp.status = StatusCreated => Answered201(r)
    /\ \A h \in health : h = [status |-> StatusOK, body |-> "ok"]

C17_PanicContained ==
    /\ [](\A r \in Panicked :
            /\ reqs[r].pc = "done"
            /\ reqs[r].resp.status = StatusInternalServerError
            /\ reqs[r].writes = 1)
    /\ []OthersServedAsUsual
    /\ [][PanicTouchesOneRequest]_vars
    /\ [][(Panicked # {} /\ State = "Listening" /\ ~ctxDone) =>
            (ENABLED HealthAccept <=> nhealth + hpending < MaxHealth)]_vars

\* C17 (amended): a panic before the handler has written anything is
\* answered 500, unless the panic value is http.ErrAbortHandler (the
\* connection is aborted and nothing is written) or the request carries
\* the header Connection: Upgrade (nothing is written by the middleware and
\* the client receives an empty 200); in every case the server stays in
\* Listening and the other requests, before and after, are served as if
\* there had been no panic.
C17_PanicRecovered ==
    /\ [](\A r \in Panicked :
            IF reqs[r].rvr = ErrAbortHandler
            THEN /\ reqs[r].pc = "aborted"
                 /\ reqs[r].resp = NoResponse
                 /\ reqs[r].writes = 0
            ELSE /\ reqs[r].pc = "done"
                 /\ reqs[r].writes = 1
                 /\ reqs[r].resp = IF reqs[r].connection = "Upgrade"
                                   THEN EmptyResponse
                                   ELSE PanicResponse)
    /\ []OthersServedAsUsual
    /\ [][PanicTouchesOneRequest]_vars
    /\ [][(Panicked # {} /\ State = "Listening" /\ ~ctxDone) =>
            /\ ENABLED HealthAccept <=> nhealth + hpending < MaxHealth
            /\ ENABLED HealthHandle <=> hpending > 0]_vars

\* a handler panicked and got 500; a sign-up that arrived afterwards was
\* created, a health probe was answered, and the server listens
C17_Witness ==
    /\ State = "Listening"
    /\ Accepting
    /\ \E r \in Panicked : reqs[r].resp = PanicResponse
    /\ \E r \in Done : reqs[r].afterPanic /\ Answered201(r)
    /\ nhealth > 0

\* ------------------------------------------------------------------------
\* C18: construction builds the repository adapter, the sign-up
\* orchestrator, the transport handler and the router in that order, each
\* after the instance it receives exists and with exactly that instance;
\* while a stage is missing no later stage is built, there is no container
\* and no router is exposed to the server; on success the container holds
\* the router and Status 1.
\* ------------------------------------------------------------------------
C18_ConstructionOrder ==
    /\ Len(built) <= Len(Stages)
    /\ \A i \in 1..Len(built) :
          /\ built[i].stage = Stages[i]
          /\ built[i].uses = IF i = 1 THEN NoInstance ELSE built[i - 1].id
          /\ \A j \in 1..Len(built) : built[i].id = built[j].id => i = j
    /\ Len(built) < Len(Stages) => (cstatus = <<>> /\ lpc = "none" /\ nreq = 0)
    /\ (cstatus # <<>> \/ lpc # "none") =>
          /\ Len(built) = Len(Stages)
          /\ built[5].uses = built[4].id
    /\ mpc = "start" => cstatus = <<1>>

\* the server listens and serves with the router of the finished container
C18_Witness ==
    /\ built = BuiltAll
    /\ cstatus = <<1>>
    /\ Accepting
    /\ Done # {}

\* the response a body gets when its request is the only one: the steps of
\* the handler one after the other, nothing else running
HandledAlone(b) ==
    LET a == SignUpDecode([IdleRequest EXCEPT !.pc = "accepted", !.body = b])
        h == IF a.pc = "valid" THEN ExecuteHash(a) ELSE a
        c == IF h.pc = "hashed" THEN ExecuteCreate(h, 1) ELSE h IN
    c.resp

\* ------------------------------------------------------------------------
\* C19: sign-up requests handled concurrently do not affect each other: in
\* every interleaving each request gets the status and the email (and the
\* error message) it gets when handled alone, the identifiers issued are
\* pairwise distinct, and a step of one request changes no other request.
\* ------------------------------------------------------------------------
C19_NoInterference ==
    /\ [](\A r \in Done :
            /\ reqs[r].resp.status = HandledAlone(reqs[r].body).status
            /\ reqs[r].resp.email = HandledAlone(reqs[r].body).email
            /\ reqs[r].resp.msg = HandledAlone(reqs[r].body).msg
            /\ reqs[r].writes = 1)
    /\ [](\A r, q \in Done :
            (/\ r # q
             /\ reqs[r].resp.status = StatusCreated
             /\ reqs[q].resp.status = StatusCreated) =>
                reqs[r].resp.id # reqs[q].resp.id)
    /\ [][\A r \in RequestIds :
            (reqs[r].pc # "idle" /\ reqs'[r] # reqs[r]) =>
                \A q \in RequestIds \ {r} : reqs'[q] = reqs[q]]_vars

\* two requests for one address were in flight together: the one accepted
\* second was created first, and both were created
C19_Witness ==
    \E r, q \in Done :
        /\ r < q
        /\ reqs[r].resp.status = StatusCreated
        /\ reqs[q].resp.status = StatusCreated
        /\ reqs[r].resp.email = reqs[q].resp.email
        /\ reqs[r].body # reqs[q].body
        /\ reqs[r].resp.id > reqs[q].resp.id

\* ------------------------------------------------------------------------
\* C20: after a shutdown signal, Container.Close runs after server.Shutdown
\* has finished and before the process exits, and leaves Status at 0, on
\* every path on which StartRestAPI returns after the signal, the expiry of
\* the 10-second timeout included.
\* ------------------------------------------------------------------------
C20_CloseOnEveryShutdownPath ==
    /\ cstatus = <<0>> => (Returned /\ mpc \in {"closed", "exited"})
    /\ (mpc = "exited" /\ ret \in {NoErr, ShutdownErr}) => cstatus = <<0>>

\* ------------------------------------------------------------------------
\* C21: cancellation affects only the listening socket: a sign-up request
\* that is inside Execute when the signal arrives is not aborted by it; it
\* goes on to call Create and is answered 201 when it finishes within the
\* grace period.  It is cut off only by the exit of the process, after the
\* grace period ran out or after a fatal error of the listener.
\* ------------------------------------------------------------------------
C21_SignalLeavesExecuteAlone ==
    \A r \in RequestIds :
        reqs[r].execAtSignal =>
            /\ reqs[r].pc \in {"valid", "hashed", "done", "killed"}
            /\ reqs[r].pc = "done" =>
                  /\ reqs[r].resp.status = NormalStatus(r)
                  /\ ValidInput(r) => (reqs[r].calls.create = 1 /\ Answered201(r))
            /\ reqs[r].pc = "killed" =>
                  /\ exitCode = <<1>>
                  /\ \/ ret = ShutdownErr /\ elapsed = ShutdownTimeout
                     \/ ret \in {ListenErr, AcceptErr}
            /\ (reqs[r].pc = "valid" /\ mpc # "exited") => ENABLED HandleHash(r)
            /\ (reqs[r].pc = "hashed" /\ mpc # "exited") => ENABLED HandleCreate(r)

\* the request was inside Execute at the signal, was created during the
\* grace period, and the shutdown then completed
C21_Witness ==
    \E r \in Done :
        /\ reqs[r].execAtSignal
        /\ reqs[r].calls.create = 1
        /\ Answered201(r)
        /\ ~reqs[r].late
        /\ elapsed > 0
        /\ ret = NoErr

\* ------------------------------------------------------------------------
\* C22: the listener goroutine never blocks forever on the send to the
\* error channel: whenever it stands at the send the send can be done, also
\* after the main path returned through the cancellation branch and nobody
\* receives; it sends at most one error and has terminated after it.
\* ------------------------------------------------------------------------
C22_ListenerSendNeverBlocks ==
    /\ [](lpc = "failed" => ENABLED SendErr)
    /\ [](Len(errCh) <= 1)
    /\ [](errSent => lpc \in {"done", "dead"})
    /\ [][Len(errCh') > Len(errCh) =>
            (~errSent /\ lpc = "failed" /\ lpc' = "done")]_vars
    /\ [][lpc = "done" => lpc' = "done"]_vars

\* the main path returned nil through the cancellation branch; the listener
\* failed afterwards, sent its error to the channel nobody reads, and ended
C22_Witness ==
    /\ ret = NoErr
    /\ ctxDone
    /\ errSent
    /\ errCh = <<lerr>>
    /\ lerr # NoErr
    /\ lpc = "done"

\* ------------------------------------------------------------------------
\* C23: the SignUp handler (of either wiring) writes exactly one response
\* for every request: on each path (decode failure, validation failure,
\* orchestrator error, success) one status and body are written when the
\* handler ends, none before, and nothing is written after a response.
\* ------------------------------------------------------------------------
C23_ExactlyOneResponse ==
    /\ [](\A r \in RequestIds :
            /\ reqs[r].pc = "done" =>
                  /\ reqs[r].writes = 1
                  /\ reqs[r].resp.status \in {StatusCreated, StatusBadRequest}
                  /\ reqs[r].resp.kind \in {"user", "error"}
            /\ reqs[r].pc # "done" =>
                  (reqs[r].writes = 0 /\ reqs[r].resp = NoResponse))
    /\ [][\A r \in RequestIds :
            reqs[r].writes > 0 => reqs'[r] = reqs[r]]_vars

\* one body with a short password through both handlers: the generated one
\* answered at its own validation, the hand-wired one after Execute
\* returned the error; one response each
C23_Witness ==
    \E r, q \in Done :
        /\ ~reqs[r].hand /\ reqs[q].hand
        /\ reqs[r].body = reqs[q].body
        /\ reqs[r].calls.execute = 0 /\ reqs[q].calls.execute = 1
        /\ reqs[q].execDone /\ reqs[q].outErr = "password min"
        /\ reqs[r].writes = 1 /\ reqs[q].writes = 1
        /\ reqs[r].resp.status = StatusBadRequest
        /\ reqs[q].resp.status = StatusBadRequest

\* ------------------------------------------------------------------------
\* C24: the two sign-up pipelines give the same outcome for every decoded
\* request: the hand-wired one and the generated one return the same
\* status, call Create the same number of times, and on success return the
\* same email.
\* ------------------------------------------------------------------------
C24_PipelinesAgree ==
    \A r, q \in Done :
        (/\ ~reqs[r].hand /\ reqs[q].hand
         /\ reqs[r].body = reqs[q].body
         /\ Decoded(r).err = NoErr) =>
            /\ reqs[r].resp.status = reqs[q].resp.status
            /\ reqs[r].calls.create = reqs[q].calls.create
            /\ reqs[r].resp.status = StatusCreated =>
                  /\ reqs[r].resp.email = reqs[q].resp.email
                  /\ reqs[r].resp.id # reqs[q].resp.id

\* one body with an upper-case address was created by both pipelines, and
\* before it one that both refused
C24_Witness ==
    \E r, q \in Done :
        /\ ~reqs[r].hand /\ reqs[q].hand
        /\ reqs[r].body = reqs[q].body
        /\ HasUpper(Decoded(r).email)
        /\ reqs[r].resp.status = StatusCreated
        /\ reqs[q].resp.status = StatusCreated
        /\ reqs[r].resp.email = reqs[q].resp.email
        /\ reqs[r].calls.create = 1 /\ reqs[q].calls.create = 1

====
